---- MODULE Spec2Model ----
(***************************************************************************)
(* Model of package core (core.go): the appender registry, the root        *)
(* configuration, the logger factory and the concurrent logger registry.   *)
(*                                                                         *)
(* New runs single-threaded, phase by phase, and consumes the decoded      *)
(* configuration as it goes; `config` records the part consumed so far.    *)
(* GetLogger is split at its two sync.Map operations so that concurrent    *)
(* calls interleave as they can in the program.                            *)
(***************************************************************************)
EXTENDS Integers, Sequences, FiniteSets, TLC

VARIABLES
    npc,              \* position of New: unpack, appenders, rootLevel, rootAppenders, loggers, done, failed
    config,           \* the decoded configuration, as far as New has read it
    nameToAppender,   \* Core.nameToAppender
    rootAppenders,    \* Core.rootAppenders
    rootLevel,        \* Core.rootLevel
    rootLevelName,    \* Core.rootLevelName
    rootAppenderRefs, \* Core.rootAppenderRefs
    nameToLogger,     \* Core.nameToLogger (sync.Map)
    handles,          \* every *ZapLogger constructed so far; the index is its identity
    published,        \* history: every (name, handle) ever written into nameToLogger
    ret,              \* what New returned
    tpc,              \* position of each caller inside GetLogger
    tname,            \* the name argument of each caller's call in progress
    tcand,            \* zl, the candidate each caller built
    returned,         \* history: every (name, handle) a GetLogger call returned
    lastPut,          \* the last putAppender call: arguments and error
    nput,             \* number of direct putAppender calls made
    full              \* the whole decoded configuration, where New is given one up front

vars == <<npc, config, nameToAppender, rootAppenders, rootLevel, rootLevelName,
          rootAppenderRefs, nameToLogger, handles, published, ret, tpc, tname,
          tcand, returned, lastPut, nput, full>>

coreVars == <<nameToAppender, rootAppenders, rootLevel, rootLevelName,
              rootAppenderRefs, nameToLogger>>

runVars == <<tpc, tname, tcand, returned>>

----------------------------------------------------------------------------
(* Bounds *)

MaxAppenderCfgs == 2
MaxRefs == 2
MaxLoggers == 2
NumThreads == 2
MaxPuts == 3
CfgMaxAppenders == 2
CfgMaxRefs == 1
CfgMaxLoggers == 2

----------------------------------------------------------------------------
(* Input domains *)

Threads == 1..NumThreads

\* names of appenders as config blocks yield them, and as references name them
AppenderNames == {"", "A", "B"}
RefNames == {"A", "B"}

\* logger names, for declarations and for GetLogger
LoggerNames == {"svc", "x"}

\* textual levels found in a configuration
LevelNames == {"", "debug", "WARN", "bogus"}

\* nil *appender.Appender
NilAppender == 0

\* the values appender.CreateAppender and appenderConfig.Name() produce for one block
AppenderBlocks ==
    [name : AppenderNames, status : {"ok"}]
      \cup [name : {"", "A"}, status : {"nilApp"}]
      \cup [name : {"A"}, status : {"createErr", "nameErr"}]

RECURSIVE SeqsUpTo(_, _)
SeqsUpTo(S, n) ==
    IF n = 0 THEN {<<>>}
    ELSE LET shorter == SeqsUpTo(S, n - 1)
         IN  shorter \cup {Append(s, x) : s \in {q \in shorter : Len(q) = n - 1}, x \in S}

RefLists == SeqsUpTo(RefNames, MaxRefs)

LoggerCfgs == [Name : LoggerNames, Level : LevelNames, AppenderRefs : RefLists]

----------------------------------------------------------------------------
(* Errors *)

NoErr == [kind |-> "nil", arg |-> ""]
Err(kind, arg) == [kind |-> kind, arg |-> arg]

----------------------------------------------------------------------------
(* Go maps *)

EmptyMap == [k \in {} |-> 0]
MapPut(m, k, v) == [x \in (DOMAIN m) \cup {k} |-> IF x = k THEN v ELSE m[x]]

\* MakeStringSet that takes only the first of the strings given
MakeStringSet_first(afs) == IF Len(afs) = 0 THEN {} ELSE {afs[1]}

\* common.MakeStringSet: the set of the strings given
MakeStringSet(afs) == {afs[i] : i \in DOMAIN afs}

\* StringSet.ToSlice: the members in some order
ToSlice(s) == {q \in SeqsUpTo(s, Cardinality(s)) :
                 Len(q) = Cardinality(s) /\ MakeStringSet(q) = s}

----------------------------------------------------------------------------
(* Level resolver *)

DebugLevel == 0 - 1
InfoLevel == 0
WarnLevel == 1
ErrorLevel == 2

\* zapcore.Level.UnmarshalText followed by zap.NewAtomicLevelAt
createLevel(level) ==
    CASE level \in {"debug", "DEBUG"} -> [err |-> NoErr, level |-> DebugLevel]
      [] level \in {"info", "INFO", ""} -> [err |-> NoErr, level |-> InfoLevel]
      [] level \in {"warn", "WARN"} -> [err |-> NoErr, level |-> WarnLevel]
      [] level \in {"error", "ERROR"} -> [err |-> NoErr, level |-> ErrorLevel]
      [] OTHER -> [err |-> Err("InvalidLevel", level), level |-> InfoLevel]

----------------------------------------------------------------------------
(* Appender registry *)

\* putAppender without the return on an existing name
putAppender_overwrite(m, name, a) ==
    IF name = "" THEN [err |-> Err("EmptyName", name), m |-> m]
    ELSE IF a = NilAppender THEN [err |-> Err("NilAppender", name), m |-> m]
    ELSE IF name \in DOMAIN m THEN [err |-> Err("DuplicateName", name), m |-> MapPut(m, name, a)]
    ELSE [err |-> NoErr, m |-> MapPut(m, name, a)]

\* putAppender without the nil test
putAppender_noNilCheck(m, name, a) ==
    IF name = "" THEN [err |-> Err("EmptyName", name), m |-> m]
    ELSE IF name \in DOMAIN m THEN [err |-> Err("DuplicateName", name), m |-> m]
    ELSE [err |-> NoErr, m |-> MapPut(m, name, a)]

\* putAppender with the nil test ahead of the empty-name test
putAppender_nilFirst(m, name, a) ==
    IF a = NilAppender THEN [err |-> Err("NilAppender", name), m |-> m]
    ELSE IF name = "" THEN [err |-> Err("EmptyName", name), m |-> m]
    ELSE IF name \in DOMAIN m THEN [err |-> Err("DuplicateName", name), m |-> m]
    ELSE [err |-> NoErr, m |-> MapPut(m, name, a)]

putAppender(m, name, a) ==
    IF name = "" THEN [err |-> Err("EmptyName", name), m |-> m]
    ELSE IF a = NilAppender THEN [err |-> Err("NilAppender", name), m |-> m]
    ELSE IF name \in DOMAIN m THEN [err |-> Err("DuplicateName", name), m |-> m]
    ELSE [err |-> NoErr, m |-> MapPut(m, name, a)]

\* getAppender without the existence check
getAppender_noCheck(m, name) ==
    [err |-> NoErr, a |-> IF name \in DOMAIN m THEN m[name] ELSE NilAppender]

getAppender(m, name) ==
    IF name \notin DOMAIN m THEN [err |-> Err("NotFound", name), a |-> NilAppender]
    ELSE [err |-> NoErr, a |-> m[name]]

----------------------------------------------------------------------------
(* Logger factory *)

\* a nil zapcore.LevelEnabler (the zero value of Core.rootLevel)
NilLevel == 99

\* the builder recorded in a handle made by New
ByNew == 0

\* the level fallback skipped: the root's level name always wins
EffectiveLevelName_root(loggerCfg) == rootLevelName

\* the level fallback taken only when the references fall back too
EffectiveLevelName_coupled(loggerCfg) ==
    IF loggerCfg.Level = "" /\ Len(loggerCfg.AppenderRefs) = 0
    THEN rootLevelName ELSE loggerCfg.Level

\* levelName after the fallback of newLogger
EffectiveLevelName(loggerCfg) ==
    IF loggerCfg.Level = "" THEN rootLevelName ELSE loggerCfg.Level

\* the appender fallback merged into the declaration's own references
EffectiveRefs_merge(loggerCfg) == loggerCfg.AppenderRefs \o rootAppenderRefs

\* afs after the fallback of newLogger
EffectiveRefs(loggerCfg) ==
    IF Len(loggerCfg.AppenderRefs) = 0 THEN rootAppenderRefs ELSE loggerCfg.AppenderRefs

\* zap.New(zapcore.NewTee(zcs...)).Named(name): cores maps each key of the
\* appender map ranged over to the appender its core writes to
ZapLogger(name, level, am, by) ==
    [name |-> name, level |-> level, cores |-> am, by |-> by]

\* newLogger without the test for an empty appender map
newLogger_noEmptyCheck(loggerCfg) ==
    LET lv  == createLevel(EffectiveLevelName(loggerCfg))
        set == MakeStringSet(EffectiveRefs(loggerCfg))
        missing == {a \in set : getAppender(nameToAppender, a).err # NoErr}
        am  == [a \in set |-> getAppender(nameToAppender, a).a]
    IN  IF lv.err # NoErr THEN {[err |-> lv.err, ok |-> FALSE]}
        ELSE IF missing # {}
             THEN {[err |-> getAppender(nameToAppender, a).err, ok |-> FALSE] : a \in missing}
        ELSE {[err |-> NoErr, ok |-> TRUE,
               logger |-> ZapLogger(loggerCfg.Name, lv.level, am, ByNew)]}

\* newLogger that looks the appenders up before it resolves the level
newLogger_lookupFirst(loggerCfg) ==
    LET lv  == createLevel(EffectiveLevelName(loggerCfg))
        set == MakeStringSet(EffectiveRefs(loggerCfg))
        missing == {a \in set : getAppender(nameToAppender, a).err # NoErr}
        am  == [a \in set |-> getAppender(nameToAppender, a).a]
    IN  IF missing # {}
        THEN {[err |-> getAppender(nameToAppender, a).err, ok |-> FALSE] : a \in missing}
        ELSE IF lv.err # NoErr THEN {[err |-> lv.err, ok |-> FALSE]}
        ELSE IF Cardinality(DOMAIN am) = 0
             THEN {[err |-> Err("NoAppenders", ""), ok |-> FALSE]}
        ELSE {[err |-> NoErr, ok |-> TRUE,
               logger |-> ZapLogger(loggerCfg.Name, lv.level, am, ByNew)]}

\* the outcomes of newLogger: the range over the string set has no fixed
\* order, so any unregistered reference may be the one reported
newLogger(loggerCfg) ==
    LET lv  == createLevel(EffectiveLevelName(loggerCfg))
        set == MakeStringSet(EffectiveRefs(loggerCfg))
        missing == {a \in set : getAppender(nameToAppender, a).err # NoErr}
        am  == [a \in set |-> getAppender(nameToAppender, a).a]
    IN  IF lv.err # NoErr THEN {[err |-> lv.err, ok |-> FALSE]}
        ELSE IF missing # {}
             THEN {[err |-> getAppender(nameToAppender, a).err, ok |-> FALSE] : a \in missing}
        ELSE IF Cardinality(DOMAIN am) = 0
             THEN {[err |-> Err("NoAppenders", ""), ok |-> FALSE]}
        ELSE {[err |-> NoErr, ok |-> TRUE,
               logger |-> ZapLogger(loggerCfg.Name, lv.level, am, ByNew)]}

\* newNamedLogger ranging over every registered appender instead of the root's
newNamedLogger_all(name, by) == ZapLogger(name, rootLevel, nameToAppender, by)

newNamedLogger(name, by) == ZapLogger(name, rootLevel, rootAppenders, by)

----------------------------------------------------------------------------
(* sync.Map *)

Load(m, key) ==
    IF key \in DOMAIN m THEN [value |-> m[key], ok |-> TRUE]
    ELSE [value |-> 0, ok |-> FALSE]

\* a plain Store in place of LoadOrStore
LoadOrStore_overwrite(m, key, value) ==
    [m |-> MapPut(m, key, value), actual |-> value, loaded |-> FALSE]

\* LoadOrStore whose result is ignored in favour of the caller's own value
LoadOrStore_own(m, key, value) ==
    IF key \in DOMAIN m THEN [m |-> m, actual |-> value, loaded |-> TRUE]
    ELSE [m |-> MapPut(m, key, value), actual |-> value, loaded |-> FALSE]

\* LoadOrStore that never reports the key as loaded
LoadOrStore_neverLoaded(m, key, value) ==
    IF key \in DOMAIN m THEN [m |-> m, actual |-> m[key], loaded |-> FALSE]
    ELSE [m |-> MapPut(m, key, value), actual |-> value, loaded |-> FALSE]

LoadOrStore(m, key, value) ==
    IF key \in DOMAIN m THEN [m |-> m, actual |-> m[key], loaded |-> TRUE]
    ELSE [m |-> MapPut(m, key, value), actual |-> value, loaded |-> FALSE]

\* the history of writes into nameToLogger: every binding of new that old lacks
Publish(old, new) ==
    published \cup {<<k, new[k]>> : k \in {x \in DOMAIN new : x \notin DOMAIN old \/ old[x] # new[x]}}

----------------------------------------------------------------------------
(* New *)

EmptyConfig == [appenders |-> <<>>, rootLevel |-> "", rootRefs |-> <<>>,
                loggers |-> <<>>, rootRead |-> FALSE]

NoRet == [core |-> FALSE, err |-> NoErr]

\* no configuration given up front
EmptyFull == [appenders |-> <<>>, rootLevel |-> "", rootRefs |-> <<>>, loggers |-> <<>>]

\* return &core, err
NewFail_leak(err) ==
    /\ npc' = "failed"
    /\ ret' = [core |-> TRUE, err |-> err]

\* return nil, err
NewFail(err) ==
    /\ npc' = "failed"
    /\ ret' = [core |-> FALSE, err |-> err]

\* rawConfig.Unpack(&config)
NewUnpack ==
    /\ npc = "unpack"
    /\ \E ok \in BOOLEAN :
         IF ok THEN npc' = "appenders" /\ UNCHANGED ret
         ELSE NewFail(Err("Unpack", ""))
    /\ UNCHANGED <<config, coreVars, handles, published, runVars, lastPut, nput, full>>

\* one iteration of the loops over config.Appenders, on config block b
NewAppenderOn(b) ==
    /\ npc = "appenders"
    /\ LET a == IF b.status = "nilApp" THEN NilAppender ELSE Len(config.appenders) + 1
           r == putAppender(nameToAppender, b.name, a)
       IN  /\ config' = [config EXCEPT !.appenders = Append(@, b)]
           /\ IF b.status = "createErr"
              THEN NewFail(Err("CreateAppender", "")) /\ UNCHANGED <<nameToAppender, lastPut>>
              ELSE IF b.status = "nameErr"
              THEN NewFail(Err("AppenderName", "")) /\ UNCHANGED <<nameToAppender, lastPut>>
              ELSE /\ nameToAppender' = r.m
                   /\ lastPut' = [name |-> b.name, a |-> a, err |-> r.err]
                   /\ IF r.err # NoErr THEN NewFail(r.err) ELSE UNCHANGED <<npc, ret>>
    /\ UNCHANGED <<rootAppenders, rootLevel, rootLevelName, rootAppenderRefs,
                   nameToLogger, handles, published, runVars, nput, full>>

NewAppender ==
    /\ Len(config.appenders) < MaxAppenderCfgs
    /\ \E b \in AppenderBlocks : NewAppenderOn(b)

\* the loops over config.Appenders are exhausted
NewAppendersDone ==
    /\ npc = "appenders"
    /\ npc' = "rootLevel"
    /\ UNCHANGED <<config, coreVars, handles, published, ret, runVars, lastPut, nput, full>>

\* rootLevel with the error of createLevel dropped
NewRootLevelOn_noReturn(l) ==
    /\ npc = "rootLevel"
    /\ config' = [config EXCEPT !.rootLevel = l]
    /\ rootLevel' = createLevel(l).level
    /\ rootLevelName' = l
    /\ npc' = "rootAppenders"
    /\ UNCHANGED <<nameToAppender, rootAppenders, rootAppenderRefs, nameToLogger,
                   handles, published, ret, runVars, lastPut, nput, full>>

\* rootLevel, on config.Loggers.Root.Level = l
NewRootLevelOn(l) ==
    /\ npc = "rootLevel"
    /\ LET lv == createLevel(l)
       IN  /\ config' = [config EXCEPT !.rootLevel = l]
           /\ IF lv.err # NoErr
              THEN NewFail(lv.err) /\ UNCHANGED <<rootLevel, rootLevelName>>
              ELSE /\ rootLevel' = lv.level
                   /\ rootLevelName' = l
                   /\ npc' = "rootAppenders"
                   /\ UNCHANGED ret
    /\ UNCHANGED <<nameToAppender, rootAppenders, rootAppenderRefs, nameToLogger,
                   handles, published, runVars, lastPut, nput, full>>

NewRootLevel ==
    /\ npc = "rootLevel"
    /\ \E l \in LevelNames : NewRootLevelOn(l)

\* index of the first reference of ord that has no appender, 0 if none
FirstMissing(ord) ==
    LET bad == {i \in DOMAIN ord : getAppender(nameToAppender, ord[i]).err # NoErr}
    IN  IF bad = {} THEN 0 ELSE CHOOSE i \in bad : \A j \in bad : i <= j

\* rootAppenders, on config.Loggers.Root.AppenderRefs = refs: the range over
\* the set visits it in some order ord
NewRootAppendersOn(refs) ==
    /\ npc = "rootAppenders"
    /\ \E ord \in ToSlice(MakeStringSet(refs)) :
         LET k == FirstMissing(ord)
             n == IF k = 0 THEN Len(ord) ELSE k - 1
         IN  /\ config' = [config EXCEPT !.rootRefs = refs, !.rootRead = TRUE]
             /\ rootAppenders' = [a \in {ord[i] : i \in 1..n} |->
                                     getAppender(nameToAppender, a).a]
             /\ IF k # 0
                THEN /\ NewFail(getAppender(nameToAppender, ord[k]).err)
                     /\ UNCHANGED rootAppenderRefs
                ELSE /\ rootAppenderRefs' \in ToSlice(MakeStringSet(refs))
                     /\ npc' = "loggers"
                     /\ UNCHANGED ret
    /\ UNCHANGED <<nameToAppender, rootLevel, rootLevelName, nameToLogger,
                   handles, published, runVars, lastPut, nput, full>>

NewRootAppenders ==
    /\ npc = "rootAppenders"
    /\ \E refs \in RefLists : NewRootAppendersOn(refs)

\* one iteration of the loop over config.Loggers.Logger, on declaration lc
NewLoggerOn(lc) ==
    /\ npc = "loggers"
    /\ config' = [config EXCEPT !.loggers = Append(@, lc)]
    /\ \E o \in newLogger(lc) :
         IF o.err # NoErr
         THEN NewFail(o.err) /\ UNCHANGED <<nameToLogger, handles, published>>
         ELSE LET l == Len(handles) + 1
                  r == LoadOrStore(nameToLogger, lc.Name, l)
              IN  /\ handles' = Append(handles, o.logger)
                  /\ nameToLogger' = r.m
                  /\ published' = Publish(nameToLogger, r.m)
                  /\ IF r.loaded
                     THEN NewFail(Err("DuplicateLogger", lc.Name))
                     ELSE UNCHANGED <<npc, ret>>
    /\ UNCHANGED <<nameToAppender, rootAppenders, rootLevel, rootLevelName,
                   rootAppenderRefs, runVars, lastPut, nput, full>>

NewLogger ==
    /\ Len(config.loggers) < MaxLoggers
    /\ \E lc \in LoggerCfgs : NewLoggerOn(lc)

\* return &core, nil
NewReturn ==
    /\ npc = "loggers"
    /\ npc' = "done"
    /\ ret' = [core |-> TRUE, err |-> NoErr]
    /\ UNCHANGED <<config, coreVars, handles, published, runVars, lastPut, nput, full>>

----------------------------------------------------------------------------
(* GetLogger, called by any number of goroutines on the registry New returned *)

\* c.nameToLogger.Load(name), and the return when the name is present
GetLoggerLoad(t) ==
    /\ ret.core
    /\ tpc[t] = "idle"
    /\ \E name \in LoggerNames :
         LET r == Load(nameToLogger, name)
         IN  IF r.ok
             THEN /\ returned' = returned \cup {[name |-> name, h |-> r.value]}
                  /\ UNCHANGED <<tpc, tname>>
             ELSE /\ tpc' = [tpc EXCEPT ![t] = "absent"]
                  /\ tname' = [tname EXCEPT ![t] = name]
                  /\ UNCHANGED returned
    /\ UNCHANGED <<npc, config, coreVars, handles, published, ret, tcand, lastPut, nput, full>>

\* zl := c.newNamedLogger(name)
GetLoggerBuild(t) ==
    /\ tpc[t] = "absent"
    /\ handles' = Append(handles, newNamedLogger(tname[t], t))
    /\ tcand' = [tcand EXCEPT ![t] = Len(handles) + 1]
    /\ tpc' = [tpc EXCEPT ![t] = "built"]
    /\ UNCHANGED <<npc, config, coreVars, published, ret, tname, returned, lastPut, nput, full>>

\* GetLogger that builds again when LoadOrStore finds the name taken
GetLoggerLoadOrStore_retry(t) ==
    /\ tpc[t] = "built"
    /\ LET r == LoadOrStore(nameToLogger, tname[t], tcand[t])
       IN  /\ nameToLogger' = r.m
           /\ published' = Publish(nameToLogger, r.m)
           /\ IF r.loaded
              THEN /\ tpc' = [tpc EXCEPT ![t] = "absent"]
                   /\ UNCHANGED <<returned, tname>>
              ELSE /\ returned' = returned \cup {[name |-> tname[t], h |-> r.actual]}
                   /\ tpc' = [tpc EXCEPT ![t] = "idle"]
                   /\ tname' = [tname EXCEPT ![t] = ""]
    /\ tcand' = [tcand EXCEPT ![t] = 0]
    /\ UNCHANGED <<npc, config, nameToAppender, rootAppenders, rootLevel,
                   rootLevelName, rootAppenderRefs, handles, ret, lastPut, nput, full>>

\* v, _ := c.nameToLogger.LoadOrStore(name, zl); return v
GetLoggerLoadOrStore(t) ==
    /\ tpc[t] = "built"
    /\ LET r == LoadOrStore(nameToLogger, tname[t], tcand[t])
       IN  /\ nameToLogger' = r.m
           /\ published' = Publish(nameToLogger, r.m)
           /\ returned' = returned \cup {[name |-> tname[t], h |-> r.actual]}
    /\ tpc' = [tpc EXCEPT ![t] = "idle"]
    /\ tname' = [tname EXCEPT ![t] = ""]
    /\ tcand' = [tcand EXCEPT ![t] = 0]
    /\ UNCHANGED <<npc, config, nameToAppender, rootAppenders, rootLevel,
                   rootLevelName, rootAppenderRefs, handles, ret, lastPut, nput, full>>

----------------------------------------------------------------------------
(* Specification of New followed by concurrent GetLogger calls *)

Init ==
    /\ npc = "unpack"
    /\ config = EmptyConfig
    /\ nameToAppender = EmptyMap
    /\ rootAppenders = EmptyMap
    /\ rootLevel = NilLevel
    /\ rootLevelName = ""
    /\ rootAppenderRefs = <<>>
    /\ nameToLogger = EmptyMap
    /\ handles = <<>>
    /\ published = {}
    /\ ret = NoRet
    /\ tpc = [t \in Threads |-> "idle"]
    /\ tname = [t \in Threads |-> ""]
    /\ tcand = [t \in Threads |-> 0]
    /\ returned = {}
    /\ lastPut = [name |-> "", a |-> NilAppender, err |-> NoErr]
    /\ nput = 0
    /\ full = EmptyFull

Next ==
    \/ NewUnpack
    \/ NewAppender
    \/ NewAppendersDone
    \/ NewRootLevel
    \/ NewRootAppenders
    \/ NewLogger
    \/ NewReturn
    \/ \E t \in Threads : GetLoggerLoad(t)
    \/ \E t \in Threads : GetLoggerBuild(t)
    \/ \E t \in Threads : GetLoggerLoadOrStore(t)

Spec == Init /\ [][Next]_vars

\* every goroutine that is inside GetLogger is scheduled again
Fairness ==
    \A t \in Threads :
      WF_vars(GetLoggerBuild(t)) /\ WF_vars(GetLoggerLoadOrStore(t))

SpecFair == Spec /\ Fairness

----------------------------------------------------------------------------
(* Specification of New alone on a configuration given up front. The       *)
(* appender blocks come in the order in which this run of New ranges over  *)
(* config.Appenders.                                                       *)

CfgRootLevels == {"debug", "bogus"}

CfgLoggerCfgs ==
    {[Name |-> "svc", Level |-> "", AppenderRefs |-> <<>>],
     [Name |-> "svc", Level |-> "WARN", AppenderRefs |-> <<"A">>],
     [Name |-> "svc", Level |-> "bogus", AppenderRefs |-> <<"B">>],
     [Name |-> "x", Level |-> "debug", AppenderRefs |-> <<"A">>],
     [Name |-> "x", Level |-> "", AppenderRefs |-> <<"B", "B">>]}

FullConfigs ==
    [appenders : SeqsUpTo(AppenderBlocks, CfgMaxAppenders),
     rootLevel : CfgRootLevels,
     rootRefs : SeqsUpTo(RefNames, CfgMaxRefs),
     loggers : SeqsUpTo(CfgLoggerCfgs, CfgMaxLoggers)]

CfgAppender ==
    /\ Len(config.appenders) < Len(full.appenders)
    /\ NewAppenderOn(full.appenders[Len(config.appenders) + 1])

CfgAppendersDone ==
    /\ Len(config.appenders) = Len(full.appenders)
    /\ NewAppendersDone

CfgRootLevel ==
    /\ npc = "rootLevel"
    /\ NewRootLevelOn(full.rootLevel)

CfgRootAppenders ==
    /\ npc = "rootAppenders"
    /\ NewRootAppendersOn(full.rootRefs)

CfgLogger ==
    /\ Len(config.loggers) < Len(full.loggers)
    /\ NewLoggerOn(full.loggers[Len(config.loggers) + 1])

CfgReturn ==
    /\ Len(config.loggers) = Len(full.loggers)
    /\ NewReturn

InitCfg ==
    /\ npc = "unpack"
    /\ config = EmptyConfig
    /\ nameToAppender = EmptyMap
    /\ rootAppenders = EmptyMap
    /\ rootLevel = NilLevel
    /\ rootLevelName = ""
    /\ rootAppenderRefs = <<>>
    /\ nameToLogger = EmptyMap
    /\ handles = <<>>
    /\ published = {}
    /\ ret = NoRet
    /\ tpc = [t \in Threads |-> "idle"]
    /\ tname = [t \in Threads |-> ""]
    /\ tcand = [t \in Threads |-> 0]
    /\ returned = {}
    /\ lastPut = [name |-> "", a |-> NilAppender, err |-> NoErr]
    /\ nput = 0
    /\ full \in FullConfigs

NextCfg ==
    \/ NewUnpack
    \/ CfgAppender
    \/ CfgAppendersDone
    \/ CfgRootLevel
    \/ CfgRootAppenders
    \/ CfgLogger
    \/ CfgReturn

SpecCfg == InitCfg /\ [][NextCfg]_vars

----------------------------------------------------------------------------
(* Specification of the appender registry alone: any sequence of           *)
(* putAppender calls on the Core value New starts from                     *)

PutAppenderCall ==
    /\ npc = "registry"
    /\ nput < MaxPuts
    /\ \E name \in AppenderNames, a \in {NilAppender} \cup (1..MaxPuts) :
         LET r == putAppender(nameToAppender, name, a)
         IN  /\ nameToAppender' = r.m
             /\ lastPut' = [name |-> name, a |-> a, err |-> r.err]
    /\ nput' = nput + 1
    /\ UNCHANGED <<npc, config, rootAppenders, rootLevel, rootLevelName,
                   rootAppenderRefs, nameToLogger, handles, published, ret, runVars, full>>

InitReg ==
    /\ npc = "registry"
    /\ config = EmptyConfig
    /\ nameToAppender = EmptyMap
    /\ rootAppenders = EmptyMap
    /\ rootLevel = NilLevel
    /\ rootLevelName = ""
    /\ rootAppenderRefs = <<>>
    /\ nameToLogger = EmptyMap
    /\ handles = <<>>
    /\ published = {}
    /\ ret = NoRet
    /\ tpc = [t \in Threads |-> "idle"]
    /\ tname = [t \in Threads |-> ""]
    /\ tcand = [t \in Threads |-> 0]
    /\ returned = {}
    /\ lastPut = [name |-> "", a |-> NilAppender, err |-> NoErr]
    /\ nput = 0
    /\ full = EmptyFull

NextReg == PutAppenderCall

SpecReg == InitReg /\ [][NextReg]_vars

----------------------------------------------------------------------------
(* Properties *)

\* the name is declared in the part of the configuration New has read
Declared(n) == \E i \in DOMAIN config.loggers : config.loggers[i].Name = n

\* the handles constructed for a name, and those among them GetLogger built
Constructed(n) == {i \in DOMAIN handles : handles[i].name = n}
Candidates(n) == {i \in Constructed(n) : handles[i].by \in Threads}
PublishedFor(n) == {p \in published : p[1] = n}
ReturnedFor(n) == {r.h : r \in {q \in returned : q.name = n}}

\* C1: on a registry New returned, for an undeclared name x whose first
\* GetLogger calls race, every caller returns the same handle, exactly one
\* handle is ever stored under x, and no losing candidate is returned.
C1_RaceOneHandle ==
    ret.core =>
      \A x \in LoggerNames :
        ~Declared(x) =>
          /\ Cardinality(ReturnedFor(x)) <= 1
          /\ Cardinality(PublishedFor(x)) <= 1
          /\ \A h \in ReturnedFor(x) :
               /\ PublishedFor(x) = {<<x, h>>}
               /\ x \in DOMAIN nameToLogger /\ nameToLogger[x] = h
          /\ \A c \in Candidates(x) :
               (x \in DOMAIN nameToLogger /\ nameToLogger[x] # c) => c \notin ReturnedFor(x)

\* two callers raced on an undeclared name, each built a candidate, and both returned
C1_Witness ==
    /\ ret.core
    /\ \E x \in LoggerNames :
         /\ ~Declared(x)
         /\ Cardinality(Candidates(x)) >= 2
         /\ ReturnedFor(x) # {}
    /\ \A t \in Threads : tpc[t] = "idle"

\* C2: GetLogger is idempotent: all completed calls with one name returned
\* the identical handle, which stays the one stored under that name.
C2_Idempotent ==
    \A r1 \in returned :
      /\ \A r2 \in returned : r1.name = r2.name => r1.h = r2.h
      /\ r1.name \in DOMAIN nameToLogger
      /\ nameToLogger[r1.name] = r1.h

\* calls for a declared and for an undeclared name completed, the latter after a race
C2_Witness ==
    \E d, x \in LoggerNames :
      /\ Declared(d) /\ ~Declared(x)
      /\ ReturnedFor(d) # {} /\ ReturnedFor(x) # {}
      /\ Cardinality(Candidates(x)) >= 2

\* C3 as worded: the construction step runs at most once per name over the
\* life of a registry.
C3_ConstructedOnce ==
    ret.core => \A n \in LoggerNames : Cardinality(Constructed(n)) <= 1

\* C3 as amended: per name at most one handle is ever stored; a caller
\* constructs at most one candidate per name, and none for a declared name.
C3_StoredOnce ==
    \A n \in LoggerNames :
      /\ Cardinality(PublishedFor(n)) <= 1
      /\ \A t \in Threads :
           Cardinality({i \in Candidates(n) : handles[i].by = t}) <= 1
      /\ Declared(n) /\ ret.core => Candidates(n) = {}
      /\ Cardinality(Constructed(n)) <= 1 + NumThreads

\* a caller holds a candidate for a name another caller has already published
C3_Witness ==
    \E t \in Threads :
      /\ tpc[t] = "built"
      /\ tname[t] \in DOMAIN nameToLogger
      /\ nameToLogger[tname[t]] # tcand[t]
      /\ Cardinality(PublishedFor(tname[t])) = 1

\* C4: every handle GetLogger returns is backed by one or more appenders
\* gated by one level, for every configuration New accepts.
C4_Usable ==
    \A r \in returned :
      /\ Cardinality(DOMAIN handles[r.h].cores) >= 1
      /\ handles[r.h].level # NilLevel

\* C5: when any step of New fails, New returns an error and no registry,
\* and no caller ever works on the partially built registry.
C5_FailFast ==
    /\ npc = "failed" => ~ret.core /\ ret.err # NoErr
    /\ ret.err # NoErr => ~ret.core /\ npc = "failed"
    /\ ~ret.core =>
         /\ returned = {}
         /\ \A t \in Threads : tpc[t] = "idle"
         /\ \A i \in DOMAIN handles : handles[i].by = ByNew

\* New failed after it had registered appenders and stored a declared logger
C5_Witness ==
    /\ npc = "failed"
    /\ DOMAIN nameToAppender # {}
    /\ DOMAIN nameToLogger # {}
    /\ ret.err.kind \in {"DuplicateLogger", "NotFound", "InvalidLevel", "NoAppenders"}

\* the i-th declaration New has read, and the handle newLogger built from it
Decl(i) == config.loggers[i]
Built(i) == i <= Len(handles) /\ handles[i].by = ByNew

\* the cores of handle h write to exactly the registered appenders named by refs
WiredTo(h, refs) ==
    /\ DOMAIN h.cores = MakeStringSet(refs)
    /\ \A a \in DOMAIN h.cores : a \in DOMAIN nameToAppender /\ h.cores[a] = nameToAppender[a]

\* C6: after a successful New, GetLogger of a declared name returns the
\* handle built from its declaration at startup (its own level, its own
\* appenders when it supplies them), never a root-derived implicit handle.
C6_DeclaredHandle ==
    ret.core =>
      \A i \in DOMAIN config.loggers :
        /\ Built(i)
        /\ handles[i].name = Decl(i).Name
        /\ Decl(i).Level # "" => handles[i].level = createLevel(Decl(i).Level).level
        /\ Len(Decl(i).AppenderRefs) > 0 => WiredTo(handles[i], Decl(i).AppenderRefs)
        /\ Decl(i).Name \in DOMAIN nameToLogger /\ nameToLogger[Decl(i).Name] = i
        /\ PublishedFor(Decl(i).Name) = {<<Decl(i).Name, i>>}
        /\ ReturnedFor(Decl(i).Name) \subseteq {i}

\* GetLogger returned a declared handle whose level and appenders differ from the root's
C6_Witness ==
    /\ ret.core
    /\ \E i \in DOMAIN config.loggers :
         /\ ReturnedFor(Decl(i).Name) = {i}
         /\ Decl(i).Level = "debug" /\ handles[i].level = DebugLevel
         /\ rootLevel # DebugLevel
         /\ Len(Decl(i).AppenderRefs) > 0
         /\ DOMAIN handles[i].cores # DOMAIN rootAppenders

\* C7: the handle GetLogger returns for an undeclared name is gated at the
\* root level and has one core per distinct root appender reference,
\* whatever the declared loggers say.
C7_ImplicitFromRoot ==
    ret.core =>
      \A r \in returned :
        ~Declared(r.name) =>
          /\ handles[r.h].name = r.name
          /\ handles[r.h].level = createLevel(config.rootLevel).level
          /\ WiredTo(handles[r.h], config.rootRefs)

\* an implicit handle was returned under a root whose references repeat a
\* name, next to a declared logger with another level and other appenders
C7_Witness ==
    /\ ret.core
    /\ \E r \in returned :
         /\ ~Declared(r.name)
         /\ Cardinality(DOMAIN handles[r.h].cores) >= 1
         /\ Len(config.rootRefs) > Cardinality(DOMAIN handles[r.h].cores)
    /\ \E i \in DOMAIN config.loggers :
         /\ handles[i].level # rootLevel
         /\ DOMAIN handles[i].cores # DOMAIN rootAppenders

\* a putAppender call under a name the registry already holds
PutOnPresent == nput' = nput + 1 /\ lastPut'.name \in DOMAIN nameToAppender

\* C8 as worded: registering a name already present fails with
\* DuplicateName and leaves the registry unchanged.
C8_DuplicateName ==
    [][PutOnPresent =>
         /\ lastPut'.err = Err("DuplicateName", lastPut'.name)
         /\ nameToAppender' = nameToAppender]_vars

\* C8 as amended: registering under a name already present leaves the
\* registry unchanged and fails, with DuplicateName when the appender is
\* non-nil and with NilAppender when it is nil.
C8_DuplicateUnchanged ==
    [][PutOnPresent =>
         /\ nameToAppender' = nameToAppender
         /\ lastPut'.err.kind =
              IF lastPut'.a = NilAppender THEN "NilAppender" ELSE "DuplicateName"
         /\ lastPut'.err.arg = lastPut'.name]_vars

\* a second, different appender was refused under a registered name
C8_Witness ==
    /\ nput >= 2
    /\ lastPut.err.kind = "DuplicateName"
    /\ lastPut.name \in DOMAIN nameToAppender
    /\ nameToAppender[lastPut.name] # lastPut.a

\* C9: a declaration with an empty level is gated at the root's level, one
\* with no appender references is wired to the root's appender set, and
\* either fallback applies whatever the other field holds.
C9_Fallbacks ==
    \A i \in DOMAIN config.loggers :
      Built(i) =>
        /\ Decl(i).Level = "" => handles[i].level = rootLevel
        /\ Len(Decl(i).AppenderRefs) = 0 =>
             /\ handles[i].cores = rootAppenders
             /\ WiredTo(handles[i], config.rootRefs)

\* one declaration took only the level from the root, another only the appenders
C9_Witness ==
    \E i, j \in DOMAIN config.loggers :
      /\ Built(i) /\ Built(j)
      /\ Decl(i).Level = "" /\ Len(Decl(i).AppenderRefs) > 0
      /\ rootLevel = DebugLevel /\ handles[i].level = DebugLevel
      /\ DOMAIN handles[i].cores # DOMAIN rootAppenders
      /\ Decl(j).Level # "" /\ Len(Decl(j).AppenderRefs) = 0
      /\ handles[j].level # rootLevel
      /\ handles[j].cores = rootAppenders

\* the declaration names, in a non-empty list, an appender that is not registered
HasMissing(d) ==
    /\ Len(d.AppenderRefs) > 0
    /\ MakeStringSet(d.AppenderRefs) \ DOMAIN nameToAppender # {}

\* C10 as worded: a declaration with a non-empty reference list holding an
\* unregistered name makes construction fail with NotFound, and New returns
\* that NotFound error and no registry.
C10_NotFound ==
    \A i \in DOMAIN config.loggers :
      HasMissing(Decl(i)) =>
        /\ npc = "failed" /\ ~ret.core
        /\ ret.err.kind = "NotFound"

\* C10 as amended: such a declaration makes construction fail, with NotFound
\* for one of its unregistered names when its effective level parses and
\* with InvalidLevel otherwise; New, on reaching it, returns that error and
\* no registry.
C10_NotFoundAfterLevel ==
    \A i \in DOMAIN config.loggers :
      HasMissing(Decl(i)) =>
        /\ npc = "failed" /\ ~ret.core
        /\ i = Len(config.loggers)
        /\ ~Built(i)
        /\ IF Decl(i).Level # "" /\ createLevel(Decl(i).Level).err # NoErr
           THEN ret.err = Err("InvalidLevel", Decl(i).Level)
           ELSE /\ ret.err.kind = "NotFound"
                /\ ret.err.arg \in MakeStringSet(Decl(i).AppenderRefs) \ DOMAIN nameToAppender

\* New failed with NotFound on a second declaration that names a registered
\* and an unregistered appender
C10_Witness ==
    /\ npc = "failed" /\ ~ret.core
    /\ ret.err.kind = "NotFound"
    /\ Len(config.loggers) >= 2
    /\ HasMissing(Decl(Len(config.loggers)))
    /\ MakeStringSet(Decl(Len(config.loggers)).AppenderRefs) \cap DOMAIN nameToAppender # {}

\* the distinct names in a list of references
Names(refs) == {refs[k] : k \in 1..Len(refs)}

\* the level names zap parses
ValidLevelNames == {"", "debug", "DEBUG", "info", "INFO", "warn", "WARN", "error", "ERROR"}

\* the errors building one declared logger can end in
BuildErrors == {"InvalidLevel", "NotFound", "NoAppenders"}

\* declarations i and j, i before j, carry the same name
SameName(i, j) == i < j /\ Decl(i).Name = Decl(j).Name

\* C11 as worded: when two declared loggers share a name, New returns
\* DuplicateLogger and no registry.
C11_DuplicateLogger ==
    \A i, j \in DOMAIN config.loggers :
      SameName(i, j) =>
        /\ npc = "failed" /\ ~ret.core
        /\ ret.err = Err("DuplicateLogger", Decl(j).Name)

\* C11 as amended: when two declared loggers share a name, New returns no
\* registry; the error is DuplicateLogger when the second declaration builds,
\* and the second declaration's build error otherwise. The first
\* declaration's handle stays the one stored.
C11_DuplicateAfterBuild ==
    \A i, j \in DOMAIN config.loggers :
      SameName(i, j) =>
        /\ npc = "failed" /\ ~ret.core
        /\ j = Len(config.loggers)
        /\ nameToLogger[Decl(i).Name] = i
        /\ IF Built(j)
           THEN ret.err = Err("DuplicateLogger", Decl(j).Name)
           ELSE ret.err.kind \in BuildErrors

\* a second declaration of a stored name was built and refused
C11_Witness ==
    /\ npc = "failed"
    /\ ret.err.kind = "DuplicateLogger"
    /\ \E i, j \in DOMAIN config.loggers :
         /\ SameName(i, j) /\ Built(j)
         /\ handles[j] # handles[i]
         /\ nameToLogger[Decl(j).Name] = i

\* C12: after New has returned, a GetLogger step leaves the appender
\* registry and the root configuration unchanged, never changes or removes
\* a Present entry, and adds an entry only for the name of the call that
\* made the step.
C12_Frame ==
    [][ret.core =>
         /\ UNCHANGED <<nameToAppender, rootLevel, rootLevelName, rootAppenders,
                        rootAppenderRefs>>
         /\ \A n \in DOMAIN nameToLogger :
              n \in DOMAIN nameToLogger' /\ nameToLogger'[n] = nameToLogger[n]
         /\ \A n \in DOMAIN nameToLogger' \ DOMAIN nameToLogger :
              \E t \in Threads :
                /\ tpc[t] = "built" /\ tpc'[t] = "idle"
                /\ tname[t] = n /\ nameToLogger'[n] = tcand[t]]_vars

\* an implicit entry was added next to a declared one, and a caller still
\* holds a candidate for a name that is Present
C12_Witness ==
    /\ ret.core
    /\ \E d, x \in DOMAIN nameToLogger :
         /\ handles[nameToLogger[d]].by = ByNew
         /\ handles[nameToLogger[x]].by \in Threads
    /\ \E t \in Threads : tpc[t] = "built" /\ tname[t] \in DOMAIN nameToLogger

\* C13: a declaration that supplies at least one reference is wired to
\* exactly its own distinct references and to no root appender it does not
\* name; the root's set is used only when it supplies none.
C13_AllOrNothing ==
    \A i \in DOMAIN config.loggers :
      Built(i) =>
        LET own == Names(Decl(i).AppenderRefs)
            cores == handles[i].cores
        IN  /\ Len(Decl(i).AppenderRefs) > 0 =>
                 /\ DOMAIN cores = own
                 /\ \A a \in own : cores[a] = nameToAppender[a]
                 /\ (DOMAIN rootAppenders \ own) \cap DOMAIN cores = {}
            /\ DOMAIN cores # own =>
                 /\ Len(Decl(i).AppenderRefs) = 0
                 /\ cores = rootAppenders

\* a built declaration names one of the root's appenders and leaves another out
C13_Witness ==
    \E i \in DOMAIN config.loggers :
      /\ Built(i)
      /\ Names(Decl(i).AppenderRefs) \cap DOMAIN rootAppenders # {}
      /\ DOMAIN rootAppenders \ Names(Decl(i).AppenderRefs) # {}
      /\ DOMAIN handles[i].cores = Names(Decl(i).AppenderRefs)

\* the declaration supplies no reference and the root has none either
NothingToResolve(d) ==
    /\ config.rootRead
    /\ Len(config.rootRefs) = 0
    /\ Len(d.AppenderRefs) = 0

\* C14 as worded: a declaration whose resolved appender set is empty fails
\* with NoAppenders, so New fails.
C14_NoAppenders ==
    \A i \in DOMAIN config.loggers :
      NothingToResolve(Decl(i)) =>
        /\ npc = "failed" /\ ~ret.core
        /\ ret.err.kind = "NoAppenders"

\* C14 as amended: such a declaration fails with NoAppenders when its
\* effective level parses and with InvalidLevel otherwise, and New fails
\* either way.
C14_NoAppendersAfterLevel ==
    \A i \in DOMAIN config.loggers :
      NothingToResolve(Decl(i)) =>
        /\ npc = "failed" /\ ~ret.core
        /\ i = Len(config.loggers)
        /\ ~Built(i)
        /\ IF Decl(i).Level \in ValidLevelNames
           THEN ret.err.kind = "NoAppenders"
           ELSE ret.err = Err("InvalidLevel", Decl(i).Level)

\* New failed with NoAppenders on a second declaration, after one with its own references
C14_Witness ==
    /\ npc = "failed" /\ ~ret.core
    /\ ret.err.kind = "NoAppenders"
    /\ Len(config.loggers) >= 2
    /\ Built(1)
    /\ DOMAIN nameToAppender # {}
    /\ NothingToResolve(Decl(Len(config.loggers)))

\* the references a declaration ends up with, read off the configuration
ConfigRefs(d) == IF Len(d.AppenderRefs) = 0 THEN config.rootRefs ELSE d.AppenderRefs

\* C15: references are deduplicated before wiring: a handle has one core
\* per distinct resolved name, so lists with the same names, in any order
\* and with any repeats, give the same cores; likewise for the root.
C15_Dedup ==
    /\ \A i \in DOMAIN config.loggers :
         Built(i) =>
           /\ DOMAIN handles[i].cores = Names(ConfigRefs(Decl(i)))
           /\ \A j \in DOMAIN config.loggers :
                (Built(j) /\ Names(ConfigRefs(Decl(i))) = Names(ConfigRefs(Decl(j))))
                   => handles[i].cores = handles[j].cores
    /\ (config.rootRead /\ npc # "failed") =>
         /\ DOMAIN rootAppenders = Names(config.rootRefs)
         /\ Names(rootAppenderRefs) = Names(config.rootRefs)
         /\ Len(rootAppenderRefs) = Cardinality(Names(config.rootRefs))
    /\ \A h \in DOMAIN handles :
         handles[h].by \in Threads => DOMAIN handles[h].cores = Names(config.rootRefs)

\* two built declarations list the same names differently, one with a repeat
C15_Witness ==
    \E i, j \in DOMAIN config.loggers :
      /\ Built(i) /\ Built(j)
      /\ Decl(i).AppenderRefs # Decl(j).AppenderRefs
      /\ Len(Decl(i).AppenderRefs) > Cardinality(Names(Decl(i).AppenderRefs))
      /\ Len(Decl(j).AppenderRefs) > 0
      /\ Names(Decl(i).AppenderRefs) = Names(Decl(j).AppenderRefs)
      /\ handles[i].cores = handles[j].cores

\* every key of the appender registry is a name, every value an appender
WellFormedRegistry(m) == \A n \in DOMAIN m : n # "" /\ m[n] # NilAppender

\* C17: in every state of the appender registry, after any sequence of
\* successful and failed calls, every key is non-empty and every value
\* non-nil, and a name keeps the appender of its first successful
\* registration.
C17_RegistryInvariant ==
    [][/\ WellFormedRegistry(nameToAppender)
       /\ WellFormedRegistry(nameToAppender')
       /\ \A n \in DOMAIN nameToAppender :
            n \in DOMAIN nameToAppender' /\ nameToAppender'[n] = nameToAppender[n]
       /\ \A n \in DOMAIN nameToAppender' \ DOMAIN nameToAppender :
            /\ lastPut'.err = NoErr
            /\ lastPut'.name = n
            /\ nameToAppender'[n] = lastPut'.a]_vars

\* two names are registered and the last call, for one of them, was refused
C17_Witness ==
    /\ Cardinality(DOMAIN nameToAppender) = 2
    /\ lastPut.err # NoErr
    /\ lastPut.a # NilAppender
    /\ lastPut.name \in DOMAIN nameToAppender

\* a direct putAppender call
PutCall == nput' = nput + 1

\* C18: register fails with EmptyName on an empty name and with NilAppender
\* on a nil appender, leaving the registry unchanged; EmptyName goes before
\* NilAppender, and NilAppender before DuplicateName.
C18_Precedence ==
    [][PutCall =>
         /\ lastPut'.name = "" =>
              /\ lastPut'.err.kind = "EmptyName"
              /\ nameToAppender' = nameToAppender
         /\ (lastPut'.name # "" /\ lastPut'.a = NilAppender) =>
              /\ lastPut'.err.kind = "NilAppender"
              /\ nameToAppender' = nameToAppender
         /\ lastPut'.err.kind = "DuplicateName" =>
              /\ lastPut'.name # "" /\ lastPut'.a # NilAppender
              /\ lastPut'.name \in DOMAIN nameToAppender
         /\ lastPut'.err = NoErr =>
              /\ lastPut'.name # "" /\ lastPut'.a # NilAppender
              /\ lastPut'.name \notin DOMAIN nameToAppender]_vars

\* a call with an empty name and a nil appender was refused as EmptyName
C18_Witness ==
    /\ lastPut.name = ""
    /\ lastPut.a = NilAppender
    /\ lastPut.err.kind = "EmptyName"
    /\ DOMAIN nameToAppender # {}
    /\ nput >= 2

\* C20: newLogger resolves the level before it looks up any appender, and
\* New checks for a duplicate only after a successful build: an unparseable
\* level wins over an unregistered reference, and a build error wins over
\* DuplicateLogger.
C20_LevelThenLookupThenDuplicate ==
    /\ \A j \in DOMAIN config.loggers :
         /\ (Decl(j).Level \notin ValidLevelNames /\ HasMissing(Decl(j))) =>
              /\ npc = "failed"
              /\ ret.err = Err("InvalidLevel", Decl(j).Level)
         /\ ((\E i \in DOMAIN config.loggers : SameName(i, j)) /\ ~Built(j)) =>
              /\ npc = "failed"
              /\ ret.err.kind \in BuildErrors
    /\ ret.err.kind = "DuplicateLogger" =>
         /\ Built(Len(config.loggers))
         /\ \E i \in DOMAIN config.loggers : SameName(i, Len(config.loggers))

\* a second declaration of a stored name has an unparseable level and an
\* unregistered reference, and New reported the level
C20_Witness ==
    /\ npc = "failed"
    /\ ret.err.kind = "InvalidLevel"
    /\ \E i, j \in DOMAIN config.loggers :
         /\ SameName(i, j)
         /\ Decl(j).Level \notin ValidLevelNames
         /\ HasMissing(Decl(j))
         /\ nameToLogger[Decl(i).Name] = i

\* the steps a caller takes from one position of GetLogger to the next
CallSteps == {<<"idle", "absent">>, <<"absent", "built">>, <<"built", "idle">>}

\* the handles caller t has constructed for name n
BuiltBy(t, n) == {i \in DOMAIN handles : handles[i].by = t /\ handles[i].name = n}

\* one step of the program, seen from caller t
CallStep(t) ==
    /\ tpc'[t] # tpc[t] => <<tpc[t], tpc'[t]>> \in CallSteps
    /\ (tpc[t] = "idle" /\ tpc'[t] = "absent") =>
         /\ tname'[t] \notin DOMAIN nameToLogger
         /\ UNCHANGED <<handles, nameToLogger, published, returned>>
    /\ (tpc[t] = "absent" /\ tpc'[t] = "built") =>
         /\ Len(handles') = Len(handles) + 1
         /\ BuiltBy(t, tname[t]) = {}
         /\ handles'[Len(handles')].by = t
         /\ handles'[Len(handles')].name = tname[t]
         /\ UNCHANGED <<nameToLogger, published, returned>>
    /\ (tpc[t] = "built" /\ tpc'[t] = "idle") =>
         /\ handles' = handles
         /\ Cardinality(BuiltBy(t, tname[t])) = 1
         /\ Cardinality(published' \ published) <= 1
         /\ published' \ published \subseteq {<<tname[t], tcand[t]>>}
         /\ tname[t] \in DOMAIN nameToLogger'
         /\ [name |-> tname[t], h |-> nameToLogger'[tname[t]]] \in returned'

\* a call that found its name Present returned in the same step
PresentStep ==
    (tpc' = tpc /\ returned' # returned) =>
      /\ UNCHANGED <<handles, nameToLogger, published>>
      /\ \A r \in returned' \ returned :
           r.name \in DOMAIN nameToLogger /\ nameToLogger[r.name] = r.h

\* a caller inside GetLogger can take its next step whatever the others do
NonBlocking ==
    \A t \in Threads :
      /\ tpc[t] = "absent" => ENABLED GetLoggerBuild(t)
      /\ tpc[t] = "built" => ENABLED GetLoggerLoadOrStore(t)

\* C19: a GetLogger call that finds the name Present constructs and writes
\* nothing; one that finds it Absent constructs once, attempts one
\* insert-if-absent and returns, never retrying or waiting for another
\* caller; every call terminates.
C19_NoRetry ==
    /\ [][PresentStep /\ \A t \in Threads : CallStep(t)]_vars
    /\ []NonBlocking
    /\ \A t \in Threads : (tpc[t] # "idle") ~> (tpc[t] = "idle")

\* a caller that lost the race holds its candidate while another caller is
\* about to build one for a second name
C19_Witness ==
    \E t, u \in Threads :
      /\ tpc[t] = "built" /\ tname[t] \in DOMAIN nameToLogger
      /\ nameToLogger[tname[t]] # tcand[t]
      /\ tpc[u] = "absent" /\ tname[u] # tname[t]

\* the least member of a set of indices, 0 when it is empty
FirstOf(S) == IF S = {} THEN 0 ELSE CHOOSE k \in S : \A j \in S : k <= j

\* the error block k of the given configuration runs into when the blocks
\* before it registered, "" if none
BlockFault(k) ==
    LET b == full.appenders[k]
    IN  IF b.status = "createErr" THEN "CreateAppender"
        ELSE IF b.status = "nameErr" THEN "AppenderName"
        ELSE IF b.name = "" THEN "EmptyName"
        ELSE IF b.status = "nilApp" THEN "NilAppender"
        ELSE IF \E j \in 1..(k - 1) : full.appenders[j].name = b.name THEN "DuplicateName"
        ELSE ""

FaultyBlock == FirstOf({k \in DOMAIN full.appenders : BlockFault(k) # ""})

\* the appender names the given configuration registers
FullRegistered == {full.appenders[k].name : k \in DOMAIN full.appenders}

RootLevelFault == full.rootLevel \notin ValidLevelNames

RootRefsMissing == Names(full.rootRefs) \ FullRegistered

\* the error declaration j of the given configuration runs into when the
\* declarations before it were stored, "" if none
DeclFault(j) ==
    LET d == full.loggers[j]
        refs == IF Len(d.AppenderRefs) = 0 THEN full.rootRefs ELSE d.AppenderRefs
    IN  IF d.Level \notin ValidLevelNames THEN "InvalidLevel"
        ELSE IF Names(refs) \ FullRegistered # {} THEN "NotFound"
        ELSE IF Names(refs) = {} THEN "NoAppenders"
        ELSE IF \E i \in 1..(j - 1) : full.loggers[i].Name = d.Name THEN "DuplicateLogger"
        ELSE ""

FaultyDecls == {j \in DOMAIN full.loggers : DeclFault(j) # ""}

\* C16: New returns the first error in the order appender registration,
\* root level, root appender references, declared loggers in declaration
\* order, and reads nothing of the configuration past the fault.
C16_FirstError ==
    (npc \in {"failed", "done"} /\ ret.err.kind # "Unpack") =>
      IF FaultyBlock # 0
      THEN /\ npc = "failed" /\ ~ret.core
           /\ ret.err.kind = BlockFault(FaultyBlock)
           /\ Len(config.appenders) = FaultyBlock
           /\ rootLevel = NilLevel /\ ~config.rootRead /\ config.loggers = <<>>
      ELSE IF RootLevelFault
      THEN /\ npc = "failed" /\ ~ret.core
           /\ ret.err = Err("InvalidLevel", full.rootLevel)
           /\ ~config.rootRead /\ config.loggers = <<>>
      ELSE IF RootRefsMissing # {}
      THEN /\ npc = "failed" /\ ~ret.core
           /\ ret.err.kind = "NotFound" /\ ret.err.arg \in RootRefsMissing
           /\ config.loggers = <<>> /\ handles = <<>>
      ELSE IF FaultyDecls # {}
      THEN /\ npc = "failed" /\ ~ret.core
           /\ ret.err.kind = DeclFault(FirstOf(FaultyDecls))
           /\ Len(config.loggers) = FirstOf(FaultyDecls)
      ELSE /\ npc = "done" /\ ret.core /\ ret.err = NoErr
           /\ config.appenders = full.appenders
           /\ config.loggers = full.loggers

\* New failed on a configuration with a fault in each of the four phases
\* and two faulty declarations
C16_Witness ==
    /\ npc = "failed"
    /\ FaultyBlock # 0
    /\ Len(full.appenders) > FaultyBlock
    /\ RootLevelFault
    /\ RootRefsMissing # {}
    /\ Cardinality(FaultyDecls) >= 2
    /\ ret.err.kind = BlockFault(FaultyBlock)

====
